---- MODULE Spec2Model ----
(***************************************************************************)
(* The renamer batch of recursos-suop (src/App.tsx, the App component that *)
(* starts at line 389): the item list `files`, the run flags, the abort    *)
(* ref, every processQueue invocation that is still suspended at an await, *)
(* the cooldown timers and the unlock requests in flight.                  *)
(*                                                                         *)
(* One action is one macrotask of the browser: a handler, or the code that *)
(* runs between two awaits of an async function.  setFiles / setIsX calls  *)
(* are applied in program order inside the action.                         *)
(***************************************************************************)
EXTENDS Naturals, Sequences, FiniteSets

\* ---------------------------------------------------------------- bounds
MaxFiles == 3      \* ids generateId hands out in one behaviour
MaxBatch == 3      \* files of one selection
MaxRuns == 2       \* processQueue invocations that find an Idle item
MaxUnlocks == 1    \* handleUnlock calls in flight at once

\* ------------------------------------------------------------- constants
IDLE == "IDLE"
PROCESSING == "PROCESSING"
COMPLETE == "COMPLETE"
ERROR == "ERROR"
WAITING_PASSWORD == "WAITING_PASSWORD"
AnalysisStatus == {IDLE, PROCESSING, COMPLETE, ERROR, WAITING_PASSWORD}

DocumentType == {"comprovante", "nota_fiscal"}

\* A File is known to the batch only by whether pdf-lib finds it encrypted;
\* the new File unlockPdf returns is a plain one.
FileKinds == {"plain", "encrypted"}

\* item.data: null, what analyzeDocument returned, or what the card saved.
NoData == "null"
AiData == "extracted"
ManualData == "edited"

\* Error messages are sequences of words; s.includes(w) is "w is a word of s".
undefined == <<>>
MsgPasswordRequired == <<"PASSWORD_REQUIRED">>
MsgQuota == <<"Quota", "failure">>
Msg429 == <<"got", "429">>
MsgExceeded == <<"limit", "Exceeded">>
MsgNoAnswer == <<"Sem", "resposta", "do", "Gemini">>
MsgEmpty == <<>>
MsgDefault == <<"Falha", "na", "analise">>
MsgPaused == <<"Pausado:", "Limite", "da", "API", "atingido.">>
MsgWrongPassword == <<"Senha", "incorreta.", "Tente", "novamente.">>

toLowerCase(w) ==
  CASE w = "Quota" -> "quota"
    [] w = "Exceeded" -> "exceeded"
    [] w = "Sem" -> "sem"
    [] w = "Gemini" -> "gemini"
    [] w = "PASSWORD_REQUIRED" -> "password_required"
    [] OTHER -> w

includes(s, w) == \E i \in DOMAIN s : s[i] = w
includesLower(s, w) == \E i \in DOMAIN s : toLowerCase(s[i]) = w

VARIABLES
  files,               \* useState<AnalyzedFile[]>
  isProcessing,        \* useState(false)
  isCooldown,          \* useState(false)
  unlockNotification,  \* useState(false)
  selectedType,        \* useState<DocumentType>('comprovante')
  showDeleteConfirm,   \* useState(false)
  abortProcessingRef,  \* useRef(false)
  nextId,              \* the next id generateId returns
  runs,                \* the processQueue invocations, in order of their start
  timers,              \* the pending 15 s cooldown timeouts, oldest first
  unlocks,             \* the handleUnlock calls in flight
  cooldownBy,          \* the run whose quota signal started the present cooldown
  download,            \* a.download of the last handleDownload
  suggestedName,       \* currentSuggestedName of the card last rendered
  boletoResult,        \* what the last extractBoletoCode call resolved with
  items,               \* BarcodeScannerFeature: useState<BarcodeItem[]>
  scans                \* BarcodeScannerFeature: its processQueue invocations

vars == <<files, isProcessing, isCooldown, unlockNotification, selectedType,
          showDeleteConfirm, abortProcessingRef, nextId, runs, timers, unlocks,
          cooldownBy, download, suggestedName, boletoResult, items, scans>>

\* --------------------------------------------------------------- helpers
Ids(fs) == {fs[i].id : i \in DOMAIN fs}
Item(fs, id) == fs[CHOOSE i \in DOMAIN fs : fs[i].id = id]
MapFiles(fs, F(_)) == [i \in DOMAIN fs |-> F(fs[i])]
FilterFiles(fs, P(_)) == SelectSeq(fs, P)

isLocked == isProcessing \/ isCooldown
idleCount == Len(FilterFiles(files, LAMBDA f : f.status = IDLE))


\* --------------------------------------------- the extraction collaborator
\* analyzeDocument(file, docType): resolves with the extracted data or rejects
\* with an Error; an encrypted PDF is rejected with PASSWORD_REQUIRED before
\* the model is called.
Outcomes(file) ==
  IF file = "encrypted"
  THEN {[ok |-> FALSE, message |-> MsgPasswordRequired]}
  ELSE {[ok |-> TRUE, message |-> undefined]} \cup
       {[ok |-> FALSE, message |-> m] :
          m \in {MsgQuota, Msg429, MsgExceeded, MsgNoAnswer}}

AllOutcomes == Outcomes("plain") \cup Outcomes("encrypted")

\* What the collaborator meant by an outcome (section 6 of the specification);
\* a run remembers it for the last outcome it received.
QuotaSignals == {MsgQuota, Msg429, MsgExceeded}
Signal(out) ==
  IF out.ok THEN "ok"
  ELSE IF out.message = MsgPasswordRequired THEN "password"
  ELSE IF out.message \in QuotaSignals THEN "quota"
  ELSE "other"

\* unlockPdf(file, password): a new plain File, or it throws.
UnlockSucceeds(file, password) == file # "encrypted" \/ password = "right"

\* ------------------------------------------------- processQueue, in pieces
\* A variant that takes the IDLE items last-selected first.
FilesToProcessLifo(currentFiles) ==
  LET idle == FilterFiles(currentFiles, LAMBDA f : f.status = IDLE)
  IN [i \in DOMAIN idle |-> idle[Len(idle) + 1 - i]]

\* A variant that takes only the first IDLE item.
FilesToProcessFirstOnly(currentFiles) ==
  LET idle == FilterFiles(currentFiles, LAMBDA f : f.status = IDLE)
  IN IF idle = <<>> THEN <<>> ELSE <<idle[1]>>

\* const filesToProcess = currentFiles.filter(f => f.status === IDLE)
FilesToProcess(currentFiles) ==
  FilterFiles(currentFiles, LAMBDA f : f.status = IDLE)

\* setFiles(prev => prev.map(f => f.id === id ? {...f, status: PROCESSING} : f))
MarkProcessing(prev, id) ==
  MapFiles(prev, LAMBDA f : IF f.id = id THEN [f EXCEPT !.status = PROCESSING] ELSE f)

\* A variant that writes the result back as an item when the id is not listed.
ApplyCompleteUpsert(prev, id) ==
  IF id \in Ids(prev)
  THEN MapFiles(prev, LAMBDA f :
         IF f.id = id THEN [f EXCEPT !.status = COMPLETE, !.data = AiData] ELSE f)
  ELSE Append(prev, [id |-> id, file |-> "plain", docType |-> "comprovante",
                     status |-> COMPLETE, data |-> AiData, errorMessage |-> undefined])

\* setFiles(prev => prev.map(f => f.id === id ? {...f, status: COMPLETE, data} : f))
ApplyComplete(prev, id) ==
  MapFiles(prev, LAMBDA f :
    IF f.id = id THEN [f EXCEPT !.status = COMPLETE, !.data = AiData] ELSE f)

\* let errorMessage = error.message || "Falha na analise"
ErrorMessageOf(message) == IF message = MsgEmpty THEN MsgDefault ELSE message

IsPasswordRequired(message) == message = MsgPasswordRequired

\* A variant of the test that does not look for "exceeded".
IsQuotaErrorWithoutExceeded(message) ==
  /\ ~IsPasswordRequired(message)
  /\ LET errorMessage == ErrorMessageOf(message) IN
       \/ includesLower(errorMessage, "quota")
       \/ includes(errorMessage, "429")

\* the else-if of the catch block: "quota", "429" or "exceeded"
IsQuotaError(message) ==
  /\ ~IsPasswordRequired(message)
  /\ LET errorMessage == ErrorMessageOf(message) IN
       \/ includesLower(errorMessage, "quota")
       \/ includes(errorMessage, "429")
       \/ includesLower(errorMessage, "exceeded")

\* the setFiles of the catch block
ApplyFailure(prev, id, message) ==
  LET status == IF IsPasswordRequired(message) THEN WAITING_PASSWORD ELSE ERROR
      errorMessage == IF IsPasswordRequired(message) THEN undefined
                      ELSE IF IsQuotaError(message) THEN MsgPaused
                      ELSE ErrorMessageOf(message)
  IN MapFiles(prev, LAMBDA f :
       IF f.id = id
       THEN [f EXCEPT !.status = IF IsQuotaError(message) THEN IDLE ELSE status,
                      !.errorMessage = IF status = ERROR THEN errorMessage ELSE undefined]
       ELSE f)

\* A run that has returned keeps no locals: only how it ended, and on which
\* outcome, is remembered.
Returned(how, last) ==
  [pc |-> how, filesToProcess |-> <<>>, index |-> 0, log |-> <<>>, last |-> last,
   cancelled |-> FALSE]

\* The log of a run: "mark" (setFiles PROCESSING), "wait" (the pacing delay is
\* over), "call" (analyzeDocument is invoked), "result" (its outcome is applied
\* to the item) or "lost" (it is applied, and the item is no longer in the list).
Event(ev, id) == [ev |-> ev, id |-> id]
Result(prev, id) == Event(IF id \in Ids(prev) THEN "result" ELSE "lost", id)
Current(run) == run.filesToProcess[run.index + 1]
HasNext(run) == run.index + 1 < Len(run.filesToProcess)

\* A variant of the loop that calls analyzeDocument for the next item at once.
LoopNextWithoutPacing(run) ==
  IF HasNext(run)
  THEN [run EXCEPT !.index = @ + 1, !.pc = "analyzing",
                   !.log = @ \o <<Event("mark", run.filesToProcess[run.index + 2].id),
                                  Event("call", run.filesToProcess[run.index + 2].id)>>]
  ELSE Returned("done", run.last)

\* A variant of the loop that ends one item early.
LoopNextSkippingLast(run) ==
  IF run.index + 2 < Len(run.filesToProcess)
  THEN [run EXCEPT !.index = @ + 1, !.pc = "pacing",
                   !.log = Append(@, Event("mark", run.filesToProcess[run.index + 2].id))]
  ELSE Returned("done", run.last)

\* The run once an outcome is applied and the for loop goes on: the next
\* item is marked and the run sleeps in the pacing delay, or the loop ends.
LoopNext(run) ==
  IF HasNext(run)
  THEN [run EXCEPT !.index = @ + 1, !.pc = "pacing",
                   !.log = Append(@, Event("mark", run.filesToProcess[run.index + 2].id))]
  ELSE Returned("done", run.last)

FilesAfterLoopNext(run, prev) ==
  IF HasNext(run) THEN MarkProcessing(prev, run.filesToProcess[run.index + 2].id) ELSE prev

\* processQueue(currentFiles), up to its first await.  `prev` is the item list
\* the handler has already written, `notification` the flag it has written.
ProcessQueue(prev, currentFiles, notification) ==
  LET filesToProcess == FilesToProcess(currentFiles) IN
  /\ abortProcessingRef' = FALSE
  /\ IF filesToProcess = <<>>
     THEN /\ isProcessing' = FALSE
          /\ unlockNotification' = notification
          /\ files' = prev
          /\ runs' = runs
     ELSE /\ Len(runs) < MaxRuns
          /\ isProcessing' = TRUE
          /\ unlockNotification' = FALSE
          /\ files' = MarkProcessing(prev, filesToProcess[1].id)
          /\ runs' = Append(runs,
               [pc |-> "analyzing",
                filesToProcess |-> [i \in DOMAIN filesToProcess |->
                    [id |-> filesToProcess[i].id, file |-> filesToProcess[i].file]],
                index |-> 0,
                log |-> <<Event("mark", filesToProcess[1].id),
                          Event("call", filesToProcess[1].id)>>,
                last |-> "-",
                cancelled |-> FALSE])


\* ------------------------------------------------------------------ Init
Init ==
  /\ files = <<>>
  /\ isProcessing = FALSE
  /\ isCooldown = FALSE
  /\ unlockNotification = FALSE
  /\ selectedType = "comprovante"
  /\ showDeleteConfirm = FALSE
  /\ abortProcessingRef = FALSE
  /\ nextId = 1
  /\ runs = <<>>
  /\ timers = <<>>
  /\ unlocks = <<>>
  /\ cooldownBy = 0
  /\ download = <<>>
  /\ suggestedName = <<>>
  /\ boletoResult = <<>>
  /\ items = <<>>
  /\ scans = <<>>

\* ------------------------------------------------------- the user's handlers
\* A variant that reassigns only the items that are still IDLE.
handleTypeChangeIdleOnly(newType) ==
  /\ ~showDeleteConfirm
  /\ ~isLocked
  /\ selectedType' = newType
  /\ files' = MapFiles(files, LAMBDA f :
       IF f.status = IDLE THEN [f EXCEPT !.docType = newType] ELSE f)
  /\ UNCHANGED <<download, suggestedName, boletoResult, items, scans,
                 isProcessing, isCooldown, unlockNotification, showDeleteConfirm,
                 abortProcessingRef, nextId, runs, timers, unlocks, cooldownBy>>

\* handleTypeChange(newType); the type buttons are disabled while isLocked.
handleTypeChange(newType) ==
  /\ ~showDeleteConfirm
  /\ ~isLocked
  /\ selectedType' = newType
  /\ files' = MapFiles(files, LAMBDA f : [f EXCEPT !.docType = newType])
  /\ UNCHANGED <<download, suggestedName, boletoResult, items, scans,
                 isProcessing, isCooldown, unlockNotification, showDeleteConfirm,
                 abortProcessingRef, nextId, runs, timers, unlocks, cooldownBy>>

\* handleFilesSelected(selectedFiles); the drop zone is disabled while isLocked.
\* A variant that gives every new item the initial category.
NewFilesDefaultType(selectedFiles) ==
  [i \in DOMAIN selectedFiles |->
     [id |-> nextId + i - 1, file |-> selectedFiles[i], docType |-> "comprovante",
      status |-> IDLE, data |-> NoData, errorMessage |-> undefined]]

NewFiles(selectedFiles) ==
  [i \in DOMAIN selectedFiles |->
     [id |-> nextId + i - 1, file |-> selectedFiles[i], docType |-> selectedType,
      status |-> IDLE, data |-> NoData, errorMessage |-> undefined]]

handleFilesSelected(selectedFiles) ==
  /\ ~showDeleteConfirm
  /\ ~isLocked
  /\ nextId + Len(selectedFiles) - 1 <= MaxFiles
  /\ Len(runs) + Len(unlocks) < MaxRuns    \* room for the pass of a pending unlock
  /\ nextId' = nextId + Len(selectedFiles)
  /\ ProcessQueue(files \o NewFiles(selectedFiles), files \o NewFiles(selectedFiles), FALSE)
  /\ UNCHANGED <<download, suggestedName, boletoResult, items, scans,
                 isCooldown, selectedType, showDeleteConfirm, timers, unlocks, cooldownBy>>

\* handleRetryProcessing, behind the "pausados (Clique para retomar)" chip,
\* which is rendered when !isProcessing && !isCooldown && idleCount > 0.
handleRetryProcessing ==
  /\ ~showDeleteConfirm
  /\ ~isProcessing /\ ~isCooldown /\ idleCount > 0
  /\ Len(runs) + Len(unlocks) < MaxRuns    \* room for the pass of a pending unlock
  /\ ProcessQueue(files, files, FALSE)
  /\ UNCHANGED <<download, suggestedName, boletoResult, items, scans,
                 isCooldown, selectedType, showDeleteConfirm, nextId, timers, unlocks,
                 cooldownBy>>

\* handleUpdate(id, {data, docType}) from the card's handleSave; the edit form
\* is rendered for a COMPLETE item that has data.
handleUpdate(id, docType) ==
  /\ ~showDeleteConfirm
  /\ id \in Ids(files)
  /\ Item(files, id).status = COMPLETE /\ Item(files, id).data # NoData
  /\ files' = MapFiles(files, LAMBDA f :
       IF f.id = id THEN [f EXCEPT !.data = ManualData, !.docType = docType] ELSE f)
  /\ UNCHANGED <<download, suggestedName, boletoResult, items, scans,
                 isProcessing, isCooldown, unlockNotification, selectedType,
                 showDeleteConfirm, abortProcessingRef, nextId, runs, timers, unlocks,
                 cooldownBy>>

\* handleDelete(id)
handleDelete(id) ==
  /\ ~showDeleteConfirm
  /\ id \in Ids(files)
  /\ files' = FilterFiles(files, LAMBDA f : f.id # id)
  /\ UNCHANGED <<download, suggestedName, boletoResult, items, scans,
                 isProcessing, isCooldown, unlockNotification, selectedType,
                 showDeleteConfirm, abortProcessingRef, nextId, runs, timers, unlocks,
                 cooldownBy>>

\* handleClearAll opens the confirmation; its Cancelar button closes it.
handleClearAll ==
  /\ Len(files) > 0
  /\ ~showDeleteConfirm
  /\ showDeleteConfirm' = TRUE
  /\ UNCHANGED <<download, suggestedName, boletoResult, items, scans,
                 files, isProcessing, isCooldown, unlockNotification, selectedType,
                 abortProcessingRef, nextId, runs, timers, unlocks, cooldownBy>>

cancelClearAll ==
  /\ showDeleteConfirm
  /\ showDeleteConfirm' = FALSE
  /\ UNCHANGED <<download, suggestedName, boletoResult, items, scans,
                 files, isProcessing, isCooldown, unlockNotification, selectedType,
                 abortProcessingRef, nextId, runs, timers, unlocks, cooldownBy>>

\* A variant of executeClearAll that leaves isCooldown as it is.
executeClearAllKeepingCooldown ==
  /\ showDeleteConfirm
  /\ abortProcessingRef' = TRUE
  /\ files' = <<>>
  /\ isProcessing' = FALSE
  /\ unlockNotification' = TRUE
  /\ showDeleteConfirm' = FALSE
  /\ cooldownBy' = IF isCooldown THEN cooldownBy ELSE 0
  /\ runs' = [r \in DOMAIN runs |->
       IF runs[r].pc \in {"pacing", "analyzing"}
       THEN [runs[r] EXCEPT !.cancelled = TRUE] ELSE runs[r]]
  /\ timers' = [t \in DOMAIN timers |-> [timers[t] EXCEPT !.stale = TRUE]]
  /\ UNCHANGED <<download, suggestedName, boletoResult, items, scans,
                 isCooldown, selectedType, nextId, unlocks>>

\* executeClearAll, the confirmation's "Sim, Limpar Tudo".  The runs suspended
\* at an await and the timers pending at this moment are remembered as such.
executeClearAll ==
  /\ showDeleteConfirm
  /\ abortProcessingRef' = TRUE
  /\ files' = <<>>
  /\ isProcessing' = FALSE
  /\ isCooldown' = FALSE
  /\ unlockNotification' = TRUE
  /\ showDeleteConfirm' = FALSE
  /\ cooldownBy' = 0
  /\ runs' = [r \in DOMAIN runs |->
       IF runs[r].pc \in {"pacing", "analyzing"}
       THEN [runs[r] EXCEPT !.cancelled = TRUE] ELSE runs[r]]
  /\ timers' = [t \in DOMAIN timers |-> [timers[t] EXCEPT !.stale = TRUE]]
  /\ UNCHANGED <<download, suggestedName, boletoResult, items, scans,
                 selectedType, nextId, unlocks>>

\* the effect that hides the notification 5 s after it was raised
hideNotification ==
  /\ unlockNotification
  /\ unlockNotification' = FALSE
  /\ UNCHANGED <<download, suggestedName, boletoResult, items, scans,
                 files, isProcessing, isCooldown, selectedType, showDeleteConfirm,
                 abortProcessingRef, nextId, runs, timers, unlocks, cooldownBy>>


\* --------------------------------------------------------------- handleUnlock
RemoveAt(seq, k) == [i \in 1..(Len(seq) - 1) |-> IF i < k THEN seq[i] ELSE seq[i + 1]]

\* handleUnlock(id, password), up to `await unlockPdf(...)`; the card shows the
\* password prompt for a WAITING_PASSWORD item.
handleUnlock(id, password) ==
  /\ ~showDeleteConfirm
  /\ id \in Ids(files)
  /\ Item(files, id).status = WAITING_PASSWORD
  /\ Len(unlocks) < MaxUnlocks
  /\ Len(runs) + Len(unlocks) < MaxRuns    \* room for the pass its timeout calls
  /\ unlocks' = Append(unlocks,
       [id |-> id, file |-> Item(files, id).file, password |-> password, pc |-> "unlockPdf"])
  /\ UNCHANGED <<download, suggestedName, boletoResult, items, scans,
                 files, isProcessing, isCooldown, unlockNotification, selectedType,
                 showDeleteConfirm, abortProcessingRef, nextId, runs, timers, cooldownBy>>

\* A variant that replaces the file and leaves the status as it is.
ApplyUnlockedKeepingStatus(prev, id) ==
  MapFiles(prev, LAMBDA f :
    IF f.id = id THEN [f EXCEPT !.file = "plain", !.errorMessage = undefined] ELSE f)

\* setFiles of the try branch
ApplyUnlocked(prev, id) ==
  MapFiles(prev, LAMBDA f :
    IF f.id = id
    THEN [f EXCEPT !.file = "plain", !.status = IDLE, !.errorMessage = undefined]
    ELSE f)

\* A variant that also moves the item to ERROR.
ApplyWrongPasswordAsError(prev, id) ==
  MapFiles(prev, LAMBDA f :
    IF f.id = id THEN [f EXCEPT !.errorMessage = MsgWrongPassword, !.status = ERROR] ELSE f)

\* setFiles of the catch branch
ApplyWrongPassword(prev, id) ==
  MapFiles(prev, LAMBDA f :
    IF f.id = id THEN [f EXCEPT !.errorMessage = MsgWrongPassword] ELSE f)

\* unlockPdf settles: the item is reset and the 100 ms timeout is set, or the
\* incorrect-password notice is written.
unlockSettled(u) ==
  /\ u \in DOMAIN unlocks
  /\ unlocks[u].pc = "unlockPdf"
  /\ IF UnlockSucceeds(unlocks[u].file, unlocks[u].password)
     THEN /\ files' = ApplyUnlocked(files, unlocks[u].id)
          /\ unlocks' = [unlocks EXCEPT ![u].pc = "timeout"]
     ELSE /\ files' = ApplyWrongPassword(files, unlocks[u].id)
          /\ unlocks' = RemoveAt(unlocks, u)
  /\ UNCHANGED <<download, suggestedName, boletoResult, items, scans,
                 isProcessing, isCooldown, unlockNotification, selectedType,
                 showDeleteConfirm, abortProcessingRef, nextId, runs, timers, cooldownBy>>

\* the 100 ms timeout: setFiles(currentFiles => { processQueue(currentFiles); ... })
unlockTimeout(u) ==
  /\ u \in DOMAIN unlocks
  /\ unlocks[u].pc = "timeout"
  /\ unlocks' = RemoveAt(unlocks, u)
  /\ ProcessQueue(files, files, unlockNotification)
  /\ UNCHANGED <<download, suggestedName, boletoResult, items, scans,
                 isCooldown, selectedType, showDeleteConfirm, nextId, timers, cooldownBy>>

\* ------------------------------------------------ processQueue after an await
\* the pacing delay of a non-first item is over
pacingDone(r) ==
  /\ r \in DOMAIN runs
  /\ runs[r].pc = "pacing"
  /\ runs' = [runs EXCEPT ![r] =
       IF abortProcessingRef
       THEN Returned("aborted", @.last)
       ELSE [@ EXCEPT !.pc = "analyzing",
                      !.log = @ \o <<Event("wait", Current(runs[r]).id),
                                     Event("call", Current(runs[r]).id)>>]]
  /\ UNCHANGED <<download, suggestedName, boletoResult, items, scans,
                 files, isProcessing, isCooldown, unlockNotification, selectedType,
                 showDeleteConfirm, abortProcessingRef, nextId, timers, unlocks, cooldownBy>>

\* The part of the step that the item list and the run take when the outcome
\* is applied and the loop goes on (success, password, any other error).
FilesAfterOutcome(run, prev, out) ==
  LET id == Current(run).id
      applied == IF out.ok THEN ApplyComplete(prev, id)
                 ELSE ApplyFailure(prev, id, out.message)
  IN IF ~out.ok /\ IsQuotaError(out.message) THEN applied
     ELSE FilesAfterLoopNext(run, applied)

\* A variant in which every failure ends the loop.
RunAfterOutcomeHaltingOnFailure(run, prev, out) ==
  LET logged == [run EXCEPT !.log = Append(@, Result(prev, Current(run).id)),
                            !.last = Signal(out)] IN
  IF ~out.ok /\ IsQuotaError(out.message) THEN Returned("quota", Signal(out))
  ELSE IF ~out.ok THEN Returned("done", Signal(out))
  ELSE LoopNext(logged)

RunAfterOutcome(run, prev, out) ==
  LET logged == [run EXCEPT !.log = Append(@, Result(prev, Current(run).id)),
                            !.last = Signal(out)] IN
  IF ~out.ok /\ IsQuotaError(out.message)
  THEN Returned("quota", Signal(out))
  ELSE LoopNext(logged)

\* analyzeDocument settles with `out` for the item the run is waiting on
analyzeSettled(r, out) ==
  /\ r \in DOMAIN runs
  /\ runs[r].pc = "analyzing"
  /\ out \in Outcomes(Current(runs[r]).file)
  /\ IF abortProcessingRef
     THEN /\ runs' = [runs EXCEPT ![r] = Returned("aborted", Signal(out))]
          /\ UNCHANGED <<files, isProcessing, isCooldown, unlockNotification, timers,
                         cooldownBy>>
     ELSE /\ runs' = [runs EXCEPT ![r] = RunAfterOutcome(runs[r], files, out)]
          /\ files' = FilesAfterOutcome(runs[r], files, out)
          /\ IF ~out.ok /\ IsQuotaError(out.message)
             THEN /\ isProcessing' = FALSE
                  /\ isCooldown' = TRUE
                  /\ timers' = Append(timers, [run |-> r, stale |-> FALSE])
                  /\ cooldownBy' = IF isCooldown THEN cooldownBy ELSE r
                  /\ UNCHANGED unlockNotification
             ELSE IF HasNext(runs[r])
             THEN UNCHANGED <<isProcessing, isCooldown, unlockNotification, timers,
                              cooldownBy>>
             ELSE /\ isProcessing' = FALSE
                  /\ unlockNotification' = TRUE
                  /\ UNCHANGED <<isCooldown, timers, cooldownBy>>
  /\ UNCHANGED <<download, suggestedName, boletoResult, items, scans,
                 selectedType, showDeleteConfirm, abortProcessingRef, nextId, unlocks>>

\* What the 15 s timeout of the cooldown does to isCooldown and the notification.
CooldownOver(aborted, flag) == IF aborted THEN flag ELSE FALSE
ReadyRaised(aborted, flag) == IF aborted THEN flag ELSE TRUE

\* A variant of the timeout that also starts a queue pass over the list.
cooldownTimeoutResuming ==
  /\ timers # <<>>
  /\ timers' = Tail(timers)
  /\ isCooldown' = CooldownOver(abortProcessingRef, isCooldown)
  /\ cooldownBy' = IF isCooldown' THEN cooldownBy ELSE 0
  /\ ProcessQueue(files, files, ReadyRaised(abortProcessingRef, unlockNotification))
  /\ UNCHANGED <<download, suggestedName, boletoResult, items, scans,
                 selectedType, showDeleteConfirm, nextId, unlocks>>

\* the oldest cooldown timeout fires (all have the same delay)
cooldownTimeout ==
  /\ timers # <<>>
  /\ timers' = Tail(timers)
  /\ isCooldown' = CooldownOver(abortProcessingRef, isCooldown)
  /\ unlockNotification' = ReadyRaised(abortProcessingRef, unlockNotification)
  /\ cooldownBy' = IF isCooldown' THEN cooldownBy ELSE 0
  /\ UNCHANGED <<download, suggestedName, boletoResult, items, scans,
                 files, isProcessing, selectedType, showDeleteConfirm,
                 abortProcessingRef, nextId, runs, unlocks>>

\* ------------------------------------------------------------------ Next
Next ==
  \/ \E t \in DocumentType : handleTypeChange(t)
  \/ \E n \in 1..MaxBatch : \E selectedFiles \in [1..n -> FileKinds] :
       handleFilesSelected(selectedFiles)
  \/ handleRetryProcessing
  \/ \E id \in Ids(files) : \E t \in DocumentType : handleUpdate(id, t)
  \/ \E id \in Ids(files) : handleDelete(id)
  \/ handleClearAll
  \/ cancelClearAll
  \/ executeClearAll
  \/ hideNotification
  \/ \E id \in Ids(files) : \E password \in {"right", "wrong"} : handleUnlock(id, password)
  \/ \E u \in DOMAIN unlocks : unlockSettled(u)
  \/ \E u \in DOMAIN unlocks : unlockTimeout(u)
  \/ \E r \in DOMAIN runs : pacingDone(r)
  \/ \E r \in DOMAIN runs : \E out \in AllOutcomes : analyzeSettled(r, out)
  \/ cooldownTimeout

Spec == Init /\ [][Next]_vars

\* The browser runs every timeout that is due, and every promise of unlockPdf
\* and analyzeDocument settles: the steps of the engine are weakly fair, the
\* user's are not.
Fairness ==
  /\ \A u \in 1..MaxUnlocks : WF_vars(unlockSettled(u)) /\ WF_vars(unlockTimeout(u))
  /\ \A r \in 1..MaxRuns :
       WF_vars(pacingDone(r)) /\ WF_vars(\E out \in AllOutcomes : analyzeSettled(r, out))
  /\ WF_vars(cooldownTimeout)

LiveSpec == Spec /\ Fairness


\* ------------------------------------------------------- the file names
\* A text is a sequence of characters; the label of a category is one atom.
toUpperCase(c) ==
  CASE c = "a" -> "A" [] c = "b" -> "B" [] c = "j" -> "J" [] c = "o" -> "O"
    [] c = "s" -> "S"
    [] c = "comprovante" -> "COMPROVANTE"
    [] c = "boleto" -> "BOLETO"
    [] c = "nota_fiscal" -> "NOTA_FISCAL"
    [] OTHER -> c

\* the characters of the class [\\/:*?"<>|]
ForbiddenChars == {"\\", "/", ":", "*", "?", "\"", "<", ">", "|"}

RECURSIVE trimStart(_)
trimStart(s) == IF s # <<>> /\ Head(s) = " " THEN trimStart(Tail(s)) ELSE s
RECURSIVE trimEnd(_)
trimEnd(s) ==
  IF s # <<>> /\ s[Len(s)] = " " THEN trimEnd(SubSeq(s, 1, Len(s) - 1)) ELSE s
trim(s) == trimEnd(trimStart(s))

\* beneficiary.replace(/[\\/:*?"<>|]/g, '').trim().toUpperCase()
Sanitize(s) ==
  LET kept == SelectSeq(s, LAMBDA c : c \notin ForbiddenChars)
      trimmed == trim(kept)
  IN [i \in DOMAIN trimmed |-> toUpperCase(trimmed[i])]

\* value.replace(/\./g, '')
SafeValue(value) == SelectSeq(value, LAMBDA c : c # ".")

\* let typeLabel = docType.toUpperCase(); if (docType === 'nota_fiscal') ...
TypeLabel(docType) ==
  IF docType = "nota_fiscal" THEN <<"NOTA FISCAL">> ELSE <<toUpperCase(docType)>>

\* originalName.split('.').pop()
Extension(originalName) ==
  LET dots == {i \in DOMAIN originalName : originalName[i] = "."} IN
  IF dots = {} THEN originalName
  ELSE LET last == CHOOSE i \in dots : \A j \in dots : j <= i
       IN SubSeq(originalName, last + 1, Len(originalName))

\* generateNewFilename(item) of App
generateNewFilename(item) ==
  IF item.data = <<>> THEN item.originalName
  ELSE LET data == item.data[1] IN
       data.date \o <<"_">> \o Sanitize(data.beneficiary) \o <<"_">>
         \o SafeValue(data.value) \o <<"_">> \o TypeLabel(item.docType)
         \o <<".">> \o Extension(item.originalName)

\* generateSuggestedName(date, beneficiary, value, type) of FileCard
generateSuggestedName(date, beneficiary, value, type) ==
  date \o <<"_">> \o Sanitize(beneficiary) \o <<"_">> \o SafeValue(value) \o <<"_">>
    \o TypeLabel(type) \o <<".", "p", "d", "f">>

\* currentSuggestedName of a card that is not being edited (localData is the
\* item's data)
currentSuggestedName(item) ==
  IF item.data = <<>> THEN <<"Aguardando analise...">>
  ELSE generateSuggestedName(item.data[1].date, item.data[1].beneficiary,
                             item.data[1].value, item.docType)

\* The complete items the names are computed for: what analyzeDocument can
\* return (docNumber is undefined when the document has none) and the names
\* of the files the drop zone accepts.  Here item.data is <<>> for null and
\* <<fields>> for an ExtractedData.
Dates == {<<"2", "5", "1", "2">>, <<"0", "1", "0", "1">>}
Beneficiaries == {<<"j", "o", " ", "/", " ", "s">>, <<" ", "a", "b", " ">>, <<"A", ":", "b">>}
Values == {<<"1", ".", "2", ",", "5">>, <<"9", ",", "0">>}
DocNumbers == {undefined, <<"7", "/", "a">>, <<" ", "/">>}
OriginalNames == {<<"a", ".", "p", "d", "f">>, <<"b", ".", "c", ".", "j", "p", "g">>,
                  <<"s", "c", "a", "n">>}
NameTypes == {"comprovante", "boleto", "nota_fiscal"}
NameItems ==
  [id : {1}, file : {"plain"}, originalName : OriginalNames, docType : NameTypes,
   status : {COMPLETE},
   data : {<<d>> : d \in [date : Dates, beneficiary : Beneficiaries, value : Values,
                           docNumber : DocNumbers]},
   errorMessage : {undefined}]

NameInit ==
  /\ files \in {<<item>> : item \in NameItems}
  /\ isProcessing = FALSE /\ isCooldown = FALSE /\ unlockNotification = FALSE
  /\ selectedType = "comprovante" /\ showDeleteConfirm = FALSE
  /\ abortProcessingRef = FALSE /\ nextId = 2
  /\ runs = <<>> /\ timers = <<>> /\ unlocks = <<>> /\ cooldownBy = 0
  /\ download = <<>> /\ suggestedName = <<>>
  /\ boletoResult = <<>> /\ items = <<>> /\ scans = <<>>

\* handleDownload(item): the anchor is given the new name and clicked
handleDownload(i) ==
  /\ i \in DOMAIN files
  /\ files[i].data # <<>>
  /\ download' = generateNewFilename(files[i])
  /\ UNCHANGED <<files, isProcessing, isCooldown, unlockNotification, selectedType,
                 showDeleteConfirm, abortProcessingRef, nextId, runs, timers, unlocks,
                 cooldownBy, suggestedName, boletoResult, items, scans>>

\* FileCard renders item i and shows currentSuggestedName
FileCard(i) ==
  /\ i \in DOMAIN files
  /\ suggestedName' = currentSuggestedName(files[i])
  /\ UNCHANGED <<files, isProcessing, isCooldown, unlockNotification, selectedType,
                 showDeleteConfirm, abortProcessingRef, nextId, runs, timers, unlocks,
                 cooldownBy, download, boletoResult, items, scans>>

NameNext ==
  \/ \E i \in DOMAIN files : handleDownload(i)
  \/ \E i \in DOMAIN files : FileCard(i)

NameSpec == NameInit /\ [][NameNext]_vars


\* ------------------------------------------------------ extractBoletoCode
\* What a file gives to extractBoletoCode: the text readQrCodeLocally finds in
\* it (<<>> for null) and what the model call does: it answers with a JSON whose
\* barCode is `barCode` (<<>> for null), answers with no text, or fails.
DigitChars == {"0", "1", "2", "3", "4", "5", "6", "7", "8", "9"}
Repeat(c, n) == [i \in 1..n |-> c]
EmvHeader == <<"0", "0", "0", "2", "0", "1">>
startsWith(s, prefix) == Len(s) >= Len(prefix) /\ SubSeq(s, 1, Len(prefix)) = prefix

BarCodeLengths == {0, 35, 36, 43, 44, 47, 48, 49}
BarCodeAnswers ==
  {Repeat("1", n) : n \in BarCodeLengths}
    \cup {<<"2", ".">> \o Repeat("3", n - 1) \o <<" ">> : n \in BarCodeLengths \ {0}}
QrTexts ==
  {<<>>, <<"h", "t", "t", "p">>, Repeat("u", 20), EmvHeader \o <<"6">>,
   EmvHeader \o Repeat("5", 20)}
BoletoFiles ==
  [qr : QrTexts, answer : {"json", "no text", "fails"}, barCode : BarCodeAnswers]

\* extractBoletoCode(file), with the API key configured
extractBoletoCode(file) ==
  LET localPixCode ==
        IF file.qr # <<>> /\ ~startsWith(file.qr, EmvHeader) /\ Len(file.qr) < 20
        THEN <<>> ELSE file.qr
      clean == SelectSeq(file.barCode, LAMBDA c : c \in DigitChars)
      extractedBarCode ==
        IF file.answer = "json" /\ file.barCode # <<>> /\ Len(clean) >= 36
        THEN clean ELSE <<>>
  IN [barCode |-> IF extractedBarCode # <<>> THEN extractedBarCode ELSE undefined,
      pixCode |-> IF localPixCode # <<>> THEN localPixCode ELSE undefined,
      found |-> (extractedBarCode # <<>> \/ localPixCode # <<>>)]

BoletoInit ==
  /\ items \in {<<[id |-> 1, file |-> f, status |-> "pending"]>> : f \in BoletoFiles}
  /\ files = <<>>
  /\ isProcessing = FALSE /\ isCooldown = FALSE /\ unlockNotification = FALSE
  /\ selectedType = "comprovante" /\ showDeleteConfirm = FALSE
  /\ abortProcessingRef = FALSE /\ nextId = 1
  /\ runs = <<>> /\ timers = <<>> /\ unlocks = <<>> /\ cooldownBy = 0
  /\ download = <<>> /\ suggestedName = <<>>
  /\ boletoResult = <<>> /\ scans = <<>>

\* a call of extractBoletoCode(item.file) resolves
extractBoletoCodeResolves(i) ==
  /\ i \in DOMAIN items
  /\ boletoResult' = <<extractBoletoCode(items[i].file)>>
  /\ UNCHANGED <<files, isProcessing, isCooldown, unlockNotification, selectedType,
                 showDeleteConfirm, abortProcessingRef, nextId, runs, timers, unlocks,
                 cooldownBy, download, suggestedName, items, scans>>

BoletoNext == \E i \in DOMAIN items : extractBoletoCodeResolves(i)

BoletoSpec == BoletoInit /\ [][BoletoNext]_vars


\* ------------------------------------------------- BarcodeScannerFeature
\* The barcode batch: `items` is the component's item list and `scans` holds
\* the processQueue(queueItems) invocations, each at its await of
\* extractBoletoCode or returned.  The copied flags of handleCopy are left out:
\* no status depends on them.
validTypes == {"application/pdf", "image/jpeg", "image/png", "image/webp"}
ScannerFiles ==
  {[type |-> "application/pdf", qr |-> <<>>, answer |-> "json",
    barCode |-> Repeat("1", 47)],
   [type |-> "image/png", qr |-> EmvHeader \o Repeat("5", 20), answer |-> "fails",
    barCode |-> <<>>],
   [type |-> "image/jpeg", qr |-> <<"h", "t", "t", "p">>, answer |-> "no text",
    barCode |-> <<>>],
   [type |-> "text/plain", qr |-> <<>>, answer |-> "json", barCode |-> <<>>]}
Selections == UNION {[1..n -> ScannerFiles] : n \in 1..MaxBatch}

ScannerInit ==
  /\ items = <<>> /\ scans = <<>> /\ nextId = 1
  /\ files = <<>>
  /\ isProcessing = FALSE /\ isCooldown = FALSE /\ unlockNotification = FALSE
  /\ selectedType = "comprovante" /\ showDeleteConfirm = FALSE
  /\ abortProcessingRef = FALSE
  /\ runs = <<>> /\ timers = <<>> /\ unlocks = <<>> /\ cooldownBy = 0
  /\ download = <<>> /\ suggestedName = <<>> /\ boletoResult = <<>>

\* updateItemStatus(id, status)
updateItemStatus(prev, id, status) ==
  [i \in DOMAIN prev |-> IF prev[i].id = id THEN [prev[i] EXCEPT !.status = status]
                         ELSE prev[i]]

\* the items handleFiles makes of the files of a valid type
NewItems(selection) ==
  LET valid == SelectSeq(selection, LAMBDA f : f.type \in validTypes) IN
  [i \in DOMAIN valid |->
     [id |-> nextId + i - 1, file |-> valid[i], barCode |-> "null", pixCode |-> "null",
      status |-> "pending"]]

\* handleFiles(files) (file picker, drop or paste), with the processQueue it
\* calls up to its first await: the first new item is 'processing' and
\* extractBoletoCode is called for it.
handleFiles(selection) ==
  LET newItems == NewItems(selection) IN
  /\ nextId + Len(newItems) - 1 <= MaxFiles
  /\ IF newItems = <<>>
     THEN UNCHANGED <<items, scans, nextId>>
     ELSE /\ Len(scans) < MaxRuns
          /\ items' = updateItemStatus(items \o newItems, newItems[1].id, "processing")
          /\ scans' = Append(scans, [pc |-> "extracting", queueItems |-> newItems,
                                     index |-> 0])
          /\ nextId' = nextId + Len(newItems)
  /\ UNCHANGED <<files, isProcessing, isCooldown, unlockNotification, selectedType,
                 showDeleteConfirm, abortProcessingRef, runs, timers, unlocks,
                 cooldownBy, download, suggestedName, boletoResult>>

\* what one iteration of processQueue writes once its call has settled
ItemsAfterExtract(prev, item, threw) ==
  LET result == extractBoletoCode(item.file) IN
  IF ~threw /\ result.found /\ (result.barCode # undefined \/ result.pixCode # undefined)
  THEN [i \in DOMAIN prev |->
          IF prev[i].id = item.id
          THEN [prev[i] EXCEPT !.status = "success",
                  !.barCode = IF result.barCode # undefined THEN result.barCode ELSE "null",
                  !.pixCode = IF result.pixCode # undefined THEN result.pixCode ELSE "null"]
          ELSE prev[i]]
  ELSE updateItemStatus(prev, item.id, "error")

\* the call of invocation q settles (it resolves, or it rejects: `threw`); the
\* outcome is written and the loop goes on to the next item of queueItems, up
\* to the next await, or ends.
extractSettled(q, threw) ==
  /\ q \in DOMAIN scans
  /\ scans[q].pc = "extracting"
  /\ LET scan == scans[q]
         item == scan.queueItems[scan.index + 1]
         written == ItemsAfterExtract(items, item, threw) IN
     IF scan.index + 1 < Len(scan.queueItems)
     THEN /\ items' = updateItemStatus(written, scan.queueItems[scan.index + 2].id,
                                       "processing")
          /\ scans' = [scans EXCEPT ![q].index = @ + 1]
     ELSE /\ items' = written
          /\ scans' = [scans EXCEPT ![q] = [pc |-> "returned", queueItems |-> <<>>,
                                            index |-> 0]]
  /\ UNCHANGED <<files, isProcessing, isCooldown, unlockNotification, selectedType,
                 showDeleteConfirm, abortProcessingRef, nextId, runs, timers, unlocks,
                 cooldownBy, download, suggestedName, boletoResult>>

\* handleDelete(id) of the barcode batch
scannerHandleDelete(id) ==
  /\ id \in Ids(items)
  /\ items' = SelectSeq(items, LAMBDA i : i.id # id)
  /\ UNCHANGED <<files, isProcessing, isCooldown, unlockNotification, selectedType,
                 showDeleteConfirm, abortProcessingRef, nextId, runs, timers, unlocks,
                 cooldownBy, download, suggestedName, boletoResult, scans>>

ScannerNext ==
  \/ \E selection \in Selections : handleFiles(selection)
  \/ \E q \in 1..MaxRuns, threw \in BOOLEAN : extractSettled(q, threw)
  \/ \E id \in 1..MaxFiles : scannerHandleDelete(id)

ScannerSpec == ScannerInit /\ [][ScannerNext]_vars

\* Every call of extractBoletoCode settles.
ScannerFairness ==
  \A q \in 1..MaxRuns : WF_vars(\E threw \in BOOLEAN : extractSettled(q, threw))

ScannerLiveSpec == ScannerSpec /\ ScannerFairness


\* ================================================================ claims
Live(run) == run.pc \in {"pacing", "analyzing"}
InFlight == {r \in DOMAIN runs : runs[r].pc = "analyzing"}
\* the step in which analyzeDocument settles for run r and the run reads it
Settles(r) == runs[r].pc = "analyzing" /\ runs'[r].pc # "analyzing"
\* the step in which the oldest cooldown timeout fires
TimeoutFires == timers # <<>> /\ timers' = Tail(timers)
\* the step of executeClearAll
Clears == abortProcessingRef' /\ files' = <<>> /\ showDeleteConfirm /\ ~showDeleteConfirm'
RunFlagsUnchanged ==
  /\ isProcessing' = isProcessing
  /\ isCooldown' = isCooldown
  /\ unlockNotification' = unlockNotification

\* C1: at most one analyzeDocument call of the renamer batch is in flight at
\* any moment (so no extraction starts before the previous outcome is applied),
\* whatever addFiles, unlock, retry, delete and clearAll do.
C1_OneExtractionInFlight == Cardinality(InFlight) <= 1

\* C2: a run that was suspended at an await when executeClearAll ran changes
\* neither the item list nor isProcessing, isCooldown or the notification in
\* any of its later steps, whatever happened in between.
C2_CancelledRunIsSilent ==
  [][\A r \in DOMAIN runs :
       (runs[r].cancelled /\ runs'[r] # runs[r]) => (files' = files /\ RunFlagsUnchanged)]_vars

\* C3: in every reachable state an item carries extracted data exactly when
\* its status is COMPLETE.
C3_DataIffComplete ==
  \A i \in DOMAIN files : (files[i].data # NoData) <=> (files[i].status = COMPLETE)

\* C4: a run takes the items that were IDLE in the list passed to it in the
\* order of that list (the list is in selection order, which is the order of
\* the ids), and marks or extracts an item only after every earlier item of
\* its snapshot has had its outcome applied.
Position(run, id) == CHOOSE k \in DOMAIN run.filesToProcess : run.filesToProcess[k].id = id
C4_FifoWithinRun ==
  /\ \A i, j \in DOMAIN files : i < j => files[i].id < files[j].id
  /\ \A r \in DOMAIN runs : Live(runs[r]) =>
       LET run == runs[r] IN
       /\ \A i, j \in DOMAIN run.filesToProcess :
            i < j => run.filesToProcess[i].id < run.filesToProcess[j].id
       /\ \A p \in DOMAIN run.log :
            /\ run.log[p].id \in {run.filesToProcess[k].id : k \in DOMAIN run.filesToProcess}
            /\ Position(run, run.log[p].id) <= run.index + 1
            /\ \A k \in 1..(Position(run, run.log[p].id) - 1) :
                 \E q \in 1..(p - 1) :
                   /\ run.log[q].ev \in {"result", "lost"}
                   /\ run.log[q].id = run.filesToProcess[k].id
       /\ run.log[Len(run.log)].id = Current(run).id

\* C4 witness: a run has its third item in extraction.
C4_Witness ==
  \E r \in DOMAIN runs : runs[r].pc = "analyzing" /\ runs[r].index = 2

\* C5: when analyzeDocument fails with a quota signal for a run that has not
\* been cancelled, the item (if still listed) goes back to IDLE, isCooldown is
\* set and isProcessing cleared, the run returns, and no other item is touched:
\* no later item of the snapshot is marked PROCESSING or extracted by that run.
C5_QuotaPausesRun ==
  [][\A r \in DOMAIN runs :
       (Settles(r) /\ ~abortProcessingRef /\ runs'[r].last = "quota") =>
         LET id == Current(runs[r]).id IN
         /\ runs'[r].pc = "quota"
         /\ isCooldown' /\ ~isProcessing'
         /\ Len(files') = Len(files)
         /\ \A i \in DOMAIN files :
              IF files[i].id = id
              THEN files'[i].id = id /\ files'[i].status = IDLE /\ files'[i].status # ERROR
              ELSE files'[i] = files[i]]_vars

\* C5 witness: a run has returned on a quota signal, its item is IDLE again and
\* a later item of the list is still IDLE, during the cooldown.
C5_Witness ==
  /\ isCooldown /\ ~isProcessing
  /\ \E r \in DOMAIN runs : runs[r].pc = "quota"
  /\ \E i, j \in DOMAIN files :
       /\ i < j
       /\ files[i].status = IDLE /\ files[i].errorMessage = MsgPaused
       /\ files[j].status = IDLE

\* C6: a cooldown timeout that was pending when executeClearAll ran changes
\* neither the run flags nor the notification when it fires.
C6_StaleTimeoutIsSilent ==
  [][(TimeoutFires /\ Head(timers).stale) => RunFlagsUnchanged]_vars

\* C7 (as claimed): when the cooldown ends and IDLE items are left, a queue
\* pass starts by itself.
C7_AutoResume ==
  [][(TimeoutFires /\ isCooldown /\ ~isCooldown' /\ idleCount > 0 /\ Len(runs) < MaxRuns)
       => Len(runs') > Len(runs)]_vars

\* C7 (amended): the cooldown timeout only clears isCooldown and raises the
\* notification (unless the abort flag is set); it starts no queue pass and
\* leaves every item, the IDLE ones included, as it is.
C7_NoAutoResume ==
  [][TimeoutFires =>
       /\ files' = files
       /\ runs' = runs
       /\ isProcessing' = isProcessing
       /\ ~abortProcessingRef => (~isCooldown' /\ unlockNotification')]_vars

\* C7 witness: the cooldown is over, nothing runs, and the item the quota
\* signal parked is still IDLE.
C7_Witness ==
  /\ ~isCooldown /\ ~isProcessing /\ unlockNotification /\ timers = <<>>
  /\ \E r \in DOMAIN runs : runs[r].pc = "quota"
  /\ \A r \in DOMAIN runs : ~Live(runs[r])
  /\ \E i \in DOMAIN files : files[i].status = IDLE /\ files[i].errorMessage = MsgPaused

\* C8: a cooldown timeout that no clearAll has overtaken ends the cooldown and
\* raises the notification, and isCooldown is cleared only by the timeout of
\* the quota signal that started this cooldown, or by executeClearAll.
C8_CooldownEndsByOwnTimeout ==
  /\ [][(TimeoutFires /\ ~Head(timers).stale) => (~isCooldown' /\ unlockNotification')]_vars
  /\ [][(isCooldown /\ ~isCooldown') =>
          (Clears \/ (TimeoutFires /\ Head(timers).run = cooldownBy))]_vars

\* C9: an id that has left the list never comes back: the ids of the list are
\* ids generateId has handed out, and a step adds only ids it hands out then.
C9_NoResurrection ==
  /\ [](\A id \in Ids(files) : id < nextId)
  /\ [][\A id \in Ids(files') \ Ids(files) : id >= nextId]_vars

\* C9 witness: a run no clearAll has cancelled has applied the outcome of its
\* first item (marked and dispatched when the run started) after the item was
\* deleted, and the item is not in the list.
C9_Witness ==
  \E r \in DOMAIN runs :
    /\ Live(runs[r]) /\ ~runs[r].cancelled
    /\ \E p \in DOMAIN runs[r].log :
         /\ runs[r].log[p].ev = "lost"
         /\ runs[r].log[p].id = runs[r].filesToProcess[1].id
         /\ runs[r].log[p].id \notin Ids(files)

\* C10: every change of an item's status is one of the six transitions of the
\* state machine.
Transitions ==
  {<<IDLE, PROCESSING>>, <<PROCESSING, COMPLETE>>, <<PROCESSING, ERROR>>,
   <<PROCESSING, WAITING_PASSWORD>>, <<PROCESSING, IDLE>>, <<WAITING_PASSWORD, IDLE>>}
C10_OnlySpecifiedTransitions ==
  [][\A id \in Ids(files) \cap Ids(files') :
       \/ Item(files', id).status = Item(files, id).status
       \/ <<Item(files, id).status, Item(files', id).status>> \in Transitions]_vars

\* the step of the 100 ms timeout of handleUnlock, which calls processQueue
UnlockTimeoutFires ==
  \E u \in DOMAIN unlocks : unlocks[u].pc = "timeout" /\ unlocks' = RemoveAt(unlocks, u)

\* C11: a processQueue call that finds no IDLE item in the list passed to it
\* changes neither the item list nor isProcessing, isCooldown, the notification
\* or the abort flag, whatever the batch is doing when it is called.
C11_EmptyPassChangesNothing ==
  [][(UnlockTimeoutFires /\ FilesToProcess(files) = <<>>) =>
       /\ files' = files
       /\ RunFlagsUnchanged
       /\ abortProcessingRef' = abortProcessingRef]_vars

\* the unlock of item id has succeeded and its 100 ms timeout is pending
Unlocked(id) ==
  /\ id \in Ids(files)
  /\ \E u \in DOMAIN unlocks : unlocks[u].pc = "timeout" /\ unlocks[u].id = id
\* a run that has not returned still has item id to work on
Held(id) ==
  \E r \in DOMAIN runs :
    /\ Live(runs[r])
    /\ \E k \in (runs[r].index + 1)..Len(runs[r].filesToProcess) :
         runs[r].filesToProcess[k].id = id
Settled(id) ==
  id \in Ids(files) => Item(files, id).status \in {COMPLETE, ERROR, WAITING_PASSWORD}
\* the item is IDLE and neither a run nor a pending unlock timeout will take it
Parked(id) ==
  /\ id \in Ids(files) /\ Item(files, id).status = IDLE
  /\ ~Held(id)
  /\ ~\E u \in DOMAIN unlocks : unlocks[u].id = id

\* C12 (as claimed): once the unlock of an item has succeeded, the item
\* reaches COMPLETE, ERROR or WAITING_PASSWORD (or leaves the list) with no
\* further action of the user.
C12_UnlockedItemSettles ==
  \A id \in 1..MaxFiles : Unlocked(id) ~> Settled(id)

\* C12 (amended): when unlockPdf succeeds for a listed item, the item gets the
\* new file, is IDLE and has no error message, and the 100 ms timeout is set;
\* the processQueue call of that timeout takes the item if it is still IDLE;
\* and the item then leaves the list, reaches COMPLETE, ERROR or
\* WAITING_PASSWORD, or is left IDLE by a quota signal that stopped the run
\* holding it.
C12_UnlockedItemRejoins ==
  /\ [][\A u \in DOMAIN unlocks :
          (unlocks[u].pc = "unlockPdf" /\ unlocks' = [unlocks EXCEPT ![u].pc = "timeout"]) =>
            \A i \in DOMAIN files : files[i].id = unlocks[u].id =>
              /\ files'[i].file = "plain"
              /\ files'[i].status = IDLE
              /\ files'[i].errorMessage = undefined]_vars
  /\ [][\A id \in Ids(files) :
          (UnlockTimeoutFires /\ Unlocked(id) /\ Item(files, id).status = IDLE) =>
            /\ Len(runs') = Len(runs) + 1
            /\ \E k \in DOMAIN runs'[Len(runs')].filesToProcess :
                 runs'[Len(runs')].filesToProcess[k].id = id]_vars
  /\ \A id \in 1..MaxFiles :
       Unlocked(id) ~> (Settled(id) \/ Parked(id))

\* C12 witness: an item that a run still at work took as an encrypted file has
\* been unlocked and is COMPLETE with its new file.
C12_Witness ==
  \E r \in DOMAIN runs : Live(runs[r]) /\
    \E k \in DOMAIN runs[r].filesToProcess :
      /\ runs[r].filesToProcess[k].file = "encrypted"
      /\ runs[r].filesToProcess[k].id \in Ids(files)
      /\ Item(files, runs[r].filesToProcess[k].id).file = "plain"
      /\ Item(files, runs[r].filesToProcess[k].id).status = COMPLETE

\* C13: when unlockPdf fails, the item (if still listed) stays
\* WAITING_PASSWORD with the file it had and gets the incorrect-password notice
\* as errorMessage; no other item, no run flag, no run and no timer changes, and
\* no timeout that would call processQueue is set.
C13_FailedUnlockOnlySetsMessage ==
  [][\A u \in DOMAIN unlocks :
       (unlocks[u].pc = "unlockPdf" /\ unlocks' = RemoveAt(unlocks, u)) =>
         /\ Len(files') = Len(files)
         /\ \A i \in DOMAIN files :
              files'[i] = IF files[i].id = unlocks[u].id
                          THEN [files[i] EXCEPT !.errorMessage = MsgWrongPassword]
                          ELSE files[i]
         /\ \A i \in DOMAIN files :
              (files[i].id = unlocks[u].id /\ files[i].status = WAITING_PASSWORD) =>
                files'[i].status = WAITING_PASSWORD /\ files'[i].file = files[i].file
         /\ RunFlagsUnchanged
         /\ abortProcessingRef' = abortProcessingRef
         /\ runs' = runs /\ timers' = timers
         /\ Cardinality({v \in DOMAIN unlocks' : unlocks'[v].pc = "timeout"})
              = Cardinality({v \in DOMAIN unlocks : unlocks[v].pc = "timeout"})]_vars

\* C13 witness: an unlock has failed and is over; the item waits for a
\* password with the notice on it.
C13_Witness ==
  /\ unlocks = <<>>
  /\ \E i \in DOMAIN files :
       /\ files[i].status = WAITING_PASSWORD
       /\ files[i].file = "encrypted"
       /\ files[i].errorMessage = MsgWrongPassword

C15_ErrorMessageOnlyOnFailure ==
  \A i \in DOMAIN files :
    files[i].status \in {IDLE, PROCESSING, COMPLETE} => files[i].errorMessage = undefined

\* C16: isProcessing and isCooldown are never both set (the run state is one
\* of Idle, Running, Cooldown), and a step that starts a run leaves isProcessing
\* set, isCooldown and the notification cleared.
C16_RunStateIsOneOfThree ==
  /\ [](~(isProcessing /\ isCooldown))
  /\ [][Len(runs') > Len(runs) =>
          (isProcessing' /\ ~isCooldown' /\ ~unlockNotification')]_vars

SnapshotIds(run) == {run.filesToProcess[k].id : k \in DOMAIN run.filesToProcess}
C18_SnapshotIsFixed ==
  /\ [](\A r \in DOMAIN runs : Live(runs[r]) =>
          /\ \A p \in DOMAIN runs[r].log : runs[r].log[p].id \in SnapshotIds(runs[r])
          /\ \A p, q \in DOMAIN runs[r].log :
               (runs[r].log[p] = runs[r].log[q] /\ runs[r].log[p].ev = "mark") => p = q)
  /\ [][\A r \in DOMAIN runs :
          (Live(runs[r]) /\ runs'[r] # runs[r] /\ ~Clears) =>
            /\ Live(runs'[r]) => runs'[r].filesToProcess = runs[r].filesToProcess
            /\ Len(files') = Len(files)
            /\ \A i \in DOMAIN files :
                 files'[i] # files[i] => files[i].id \in SnapshotIds(runs[r])]_vars
  /\ [][Len(runs') > Len(runs) =>
          SnapshotIds(runs'[Len(runs')]) =
            {id \in Ids(files) : Item(files, id).status = IDLE}
              \cup (Ids(files') \ Ids(files))]_vars

\* C18 witness: an item the first run had finished with (it needed a password)
\* became IDLE again; the first run, still at work on a later item, has left it
\* alone and the next processQueue call has it in extraction.
C18_Witness ==
  /\ Len(runs) = 2 /\ Live(runs[1]) /\ ~runs[1].cancelled
  /\ runs[2].pc = "analyzing"
  /\ \E k \in 1..runs[1].index :
       /\ runs[1].filesToProcess[k].id = Current(runs[2]).id
       /\ Current(runs[2]).id \in Ids(files)
       /\ Item(files, Current(runs[2]).id).status = PROCESSING

\* C19: what handleUpdate has saved on an item stays on it for as long as the
\* item is listed: no later write of a run replaces it; and a step of a run
\* neither brings back a deleted item nor changes an item other than those of
\* its snapshot.
C19_NoLostUpdate ==
  /\ [][\A id \in Ids(files) \cap Ids(files') :
          Item(files, id).data = ManualData => Item(files', id).data = ManualData]_vars
  /\ [][\A r \in DOMAIN runs :
          (Settles(r) /\ ~Clears) =>
            /\ Ids(files') = Ids(files)
            /\ \A id \in Ids(files) \ {Current(runs[r]).id} :
                 Item(files', id).data = Item(files, id).data
                 /\ Item(files', id).docType = Item(files, id).docType]_vars

\* C20: the confirmation opens only on a list that is not empty, and opening
\* or dismissing it changes nothing else; when it is confirmed the abort flag
\* is set, the list is emptied and neither isProcessing nor isCooldown is left
\* set.
BatchUnchanged ==
  /\ files' = files /\ RunFlagsUnchanged /\ abortProcessingRef' = abortProcessingRef
  /\ runs' = runs /\ timers' = timers /\ unlocks' = unlocks
  /\ selectedType' = selectedType /\ nextId' = nextId
C20_ClearAllNeedsConfirmation ==
  /\ [][(~showDeleteConfirm /\ showDeleteConfirm') => (Len(files) > 0 /\ BatchUnchanged)]_vars
  /\ [][(showDeleteConfirm /\ ~showDeleteConfirm') =>
          \/ BatchUnchanged
          \/ /\ abortProcessingRef' /\ files' = <<>>
             /\ ~isProcessing' /\ ~isCooldown']_vars
  /\ [][(abortProcessingRef' /\ ~abortProcessingRef) =>
          (showDeleteConfirm /\ ~showDeleteConfirm' /\ files' = <<>>
             /\ ~isProcessing' /\ ~isCooldown')]_vars

\* C20 witness: the confirmation was given during a cooldown while an item was
\* listed: the list is empty, the abort flag set, nothing runs or cools down,
\* and the timeout of that cooldown is still pending.
C20_Witness ==
  /\ abortProcessingRef /\ files = <<>> /\ ~showDeleteConfirm
  /\ ~isProcessing /\ ~isCooldown
  /\ timers # <<>> /\ timers[1].stale
  /\ \E r \in DOMAIN runs : runs[r].pc = "quota"

\* C21: the ids of the list are pairwise different; a step that adds items
\* appends them at the tail, in the order generateId named them, each with the
\* selected category, no data and no error message, and IDLE; it starts a run
\* over the IDLE items, the new ones included, which marks the first of them
\* PROCESSING; nothing else of an item already listed changes.
C21_AddFilesAppends ==
  /\ [](\A i, j \in DOMAIN files : files[i].id = files[j].id => i = j)
  /\ [][Len(files') > Len(files) =>
          LET n == Len(files') - Len(files)
              added == [k \in 1..n |-> files'[Len(files) + k]]
              appended == files \o [k \in 1..n |-> [added[k] EXCEPT !.status = IDLE]]
          IN /\ \A k \in 1..n :
                  /\ added[k].id = nextId + k - 1
                  /\ added[k].id \notin Ids(files)
                  /\ added[k].docType = selectedType
                  /\ added[k].data = NoData
                  /\ added[k].errorMessage = undefined
                  /\ added[k].file \in FileKinds
             /\ nextId' = nextId + n
             /\ Len(runs') = Len(runs) + 1
             /\ SnapshotIds(runs'[Len(runs')]) =
                  {appended[i].id : i \in {j \in DOMAIN appended : appended[j].status = IDLE}}
             /\ files' = [i \in DOMAIN appended |->
                            IF appended[i].id = runs'[Len(runs')].filesToProcess[1].id
                            THEN [appended[i] EXCEPT !.status = PROCESSING]
                            ELSE appended[i]]]_vars

\* C21 witness: two files were added, under another category, to a list whose
\* only item was complete; the first of them is in extraction, the second IDLE.
C21_Witness ==
  /\ Len(files) = 3 /\ Len(runs) = 2
  /\ runs[1].pc = "done" /\ runs[2].pc = "analyzing"
  /\ Len(runs[2].filesToProcess) = 2
  /\ files[1].status = COMPLETE /\ files[1].docType = "comprovante"
  /\ files[2].status = PROCESSING /\ files[2].docType = "nota_fiscal"
  /\ files[3].status = IDLE /\ files[3].docType = "nota_fiscal" /\ files[3].data = NoData

\* C22: a step that changes the selected category gives every listed item,
\* whatever its status, the new category and changes nothing else: not the
\* status, data, error message, file or id of an item, not the order or the
\* length of the list, no run flag, no run, timer or unlock.
C22_ChangeCategoryOnlyRelabels ==
  [][selectedType' # selectedType =>
       /\ files' = [i \in DOMAIN files |-> [files[i] EXCEPT !.docType = selectedType']]
       /\ RunFlagsUnchanged /\ abortProcessingRef' = abortProcessingRef
       /\ runs' = runs /\ timers' = timers /\ unlocks' = unlocks
       /\ nextId' = nextId]_vars

\* C22 witness: the category is no longer the initial one and the list holds a
\* complete item, a failed one and one that waits for its password, all three
\* of the selected category, while nothing runs.
C22_Witness ==
  /\ selectedType = "nota_fiscal" /\ ~isProcessing /\ ~isCooldown
  /\ Len(files) = 3
  /\ \A i \in DOMAIN files : files[i].docType = "nota_fiscal"
  /\ \E i, j, k \in DOMAIN files :
       /\ files[i].status = COMPLETE /\ files[i].data = AiData
       /\ files[j].status = ERROR
       /\ files[k].status = WAITING_PASSWORD

\* C23: in a run, analyzeDocument is called for the first item right after the
\* item is marked PROCESSING; for every later item the run first marks it, then
\* sits out the pacing delay, then calls analyzeDocument; so between two calls
\* of a run there is a pacing delay that has ended, and a run that sleeps in
\* the delay has marked the item and not yet called for it.
C23_PacingBetweenCalls ==
  \A r \in DOMAIN runs : Live(runs[r]) =>
    LET run == runs[r]
        first == run.filesToProcess[1].id IN
    /\ \A p \in DOMAIN run.log : run.log[p].ev = "call" =>
         IF run.log[p].id = first
         THEN p = 2 /\ run.log[1] = Event("mark", first)
         ELSE /\ p > 2
              /\ run.log[p - 1] = Event("wait", run.log[p].id)
              /\ run.log[p - 2] = Event("mark", run.log[p].id)
    /\ \A p, q \in DOMAIN run.log :
         (p < q /\ run.log[p].ev = "call" /\ run.log[q].ev = "call") =>
           \E w \in (p + 1)..(q - 1) : run.log[w].ev = "wait"
    /\ \A p \in DOMAIN run.log : run.log[p].ev = "wait" => run.log[p].id # first
    /\ run.pc = "pacing" =>
         /\ run.index > 0
         /\ run.log[Len(run.log)] = Event("mark", Current(run).id)
    /\ run.pc = "analyzing" => run.log[Len(run.log)] = Event("call", Current(run).id)

\* C23 witness: a run has sat out the pacing delay of its second item and has
\* the call for it in flight.
C23_Witness ==
  \E r \in DOMAIN runs :
    /\ runs[r].pc = "analyzing" /\ runs[r].index = 1
    /\ runs[r].log[Len(runs[r].log) - 1] = Event("wait", Current(runs[r]).id)

\* C24 (the composition the claim names): date, sanitized payee, sanitized
\* document number when there is one and it is not empty, amount without '.',
\* type label, joined by '_', then '.' and the extension of the original name.
RECURSIVE Join(_)
Join(parts) ==
  IF Len(parts) = 1 THEN parts[1] ELSE parts[1] \o <<"_">> \o Join(Tail(parts))
NameParts(item) ==
  LET data == item.data[1] IN
  <<data.date, Sanitize(data.beneficiary)>>
    \o (IF Sanitize(data.docNumber) # <<>> THEN <<Sanitize(data.docNumber)>> ELSE <<>>)
    \o <<SafeValue(data.value), TypeLabel(item.docType)>>
\* C24: the name under which a complete item is downloaded is the join of its
\* parts, document number included when present, with the original extension.
C24_DownloadNameHasAllParts ==
  download # <<>> =>
    download = Join(NameParts(files[1])) \o <<".">> \o Extension(files[1].originalName)

\* C25: a barCode that extractBoletoCode returns is a string of 44 to 48
\* digits, and found is true exactly when a barCode or a pixCode is returned.
C25_BarLineIs44To48Digits ==
  boletoResult # <<>> =>
    LET result == boletoResult[1] IN
    /\ result.barCode # undefined =>
         /\ Len(result.barCode) >= 44 /\ Len(result.barCode) <= 48
         /\ \A i \in DOMAIN result.barCode : result.barCode[i] \in DigitChars
    /\ result.found <=> (result.barCode # undefined \/ result.pixCode # undefined)

\* C26: whenever a run has an extraction call in flight, isProcessing is true
\* (so the import of new files is blocked): no run that ends and no processQueue
\* call that finds nothing to do sets it to false while another run is working.
C26_InFlightImpliesProcessing == InFlight # {} => isProcessing

\* A step in which run r invokes analyzeDocument.
Dispatches(r) ==
  /\ r \in DOMAIN runs' /\ runs'[r].pc = "analyzing"
  /\ r \in DOMAIN runs => runs[r].pc # "analyzing"
\* C27: while the run state is Cooldown (isCooldown set before and after the
\* step) no step invokes analyzeDocument.
C27_NoCallDuringCooldown ==
  [][(isCooldown /\ isCooldown') => \A r \in 1..MaxRuns : ~Dispatches(r)]_vars

\* C28: a step in which a run invokes analyzeDocument invokes it for an item
\* that is in the list at that time: an item deleted or cleared after the
\* snapshot was taken, the pacing delay included, is skipped.
C28_NoCallForRemovedItem ==
  [][\A r \in 1..MaxRuns :
       Dispatches(r) => Current(runs'[r]).id \in Ids(files')]_vars

\* C29: the name a complete item's card shows is the name under which the
\* item is downloaded, whatever its data, category and original extension.
C29_CardNameIsDownloadName ==
  (download # <<>> /\ suggestedName # <<>>) => suggestedName = download

\* C30: in the barcode batch at most one call of extractBoletoCode is in
\* flight, whatever the sequence of handleFiles, and every item added ends in
\* 'success' or 'error' (unless it is deleted first).
Extracting == {q \in DOMAIN scans : scans[q].pc = "extracting"}
Ended(id) == id \in Ids(items) => Item(items, id).status \in {"success", "error"}
C30_OneExtractAtATime == [](Cardinality(Extracting) <= 1)
C30_EveryItemEnds == \A id \in 1..MaxFiles : (id \in Ids(items)) ~> Ended(id)
C30_ScannerIsSequential == C30_OneExtractAtATime /\ C30_EveryItemEnds

====
